---- MODULE Spec2Model ----
(***************************************************************************)
(* The update path of GTMatrix (GTMatrix_Update.c): one calling process,   *)
(* its matrix handle, the MPI windows of every rank of the group, and the  *)
(* put / accumulate calls in blocking, non-blocking and batched mode.      *)
(***************************************************************************)
EXTENDS Integers, Sequences, FiniteSets, TLC

\* ------------------------------------------------------------------ bounds
\* Largest row / column count of the matrices of SpecGeom.
MaxDim == 3
\* Calls made in one behaviour of SpecBlocking, SpecNB and SpecBatch.
MaxBlockingCalls == 2
MaxNBCalls == 3
MaxBatchCalls == 4
\* max_nb_acc ranges over 1..MaxThreshold.
MaxThreshold == 3
\* Calls in a sequence that mixes the access modes.
MaxMixedCalls == 3
\* Calls each of several processes makes.
MaxMPCalls == 2

\* ------------------------------------------------------- C int arithmetic
INT_MAX == 2147483647
INT_MIN == (-INT_MAX) - 1

\* What a build does on signed overflow (undefined behaviour): the sum or
\* product wraps modulo 2^32, or the instruction traps.
UBOutcomes == {"wrap", "trap"}

AddOverflows(a, b) ==
    \/ (b > 0 /\ a > INT_MAX - b)
    \/ (b < 0 /\ a < INT_MIN - b)

\* a + b modulo 2^32, in [INT_MIN, INT_MAX].
AddWrap(a, b) ==
    IF b > 0 /\ a > INT_MAX - b THEN (a + INT_MIN) + (b + INT_MIN)
    ELSE IF b < 0 /\ a < INT_MIN - b THEN (a - INT_MIN) + (b - INT_MIN)
    ELSE a + b

RECURSIVE MulAcc(_, _, _)
\* acc + a * b modulo 2^32 for b >= 0, by doubling a and halving b.
MulAcc(a, b, acc) ==
    IF b = 0 THEN acc
    ELSE MulAcc(AddWrap(a, a), b \div 2, IF b % 2 = 1 THEN AddWrap(acc, a) ELSE acc)

\* a * b modulo 2^32, in [INT_MIN, INT_MAX].
MulWrap(a, b) ==
    IF b >= 0 THEN MulAcc(a, b, 0)
    ELSE IF a >= 0 THEN MulAcc(b, a, 0)
    ELSE IF b = INT_MIN THEN (IF a % 2 = 0 THEN 0 ELSE INT_MIN)
    ELSE IF a = INT_MIN THEN (IF b % 2 = 0 THEN 0 ELSE INT_MIN)
    ELSE MulAcc(-a, -b, 0)

Abs(a) == IF a < 0 THEN -a ELSE a

\* The mathematical product of a and b is no int.
MulOverflows(a, b) ==
    IF a = 0 \/ b = 0 THEN FALSE
    ELSE IF a = INT_MIN THEN b # 1
    ELSE IF b = INT_MIN THEN a # 1
    ELSE LET x == Abs(a)
             y == Abs(b)
             q == INT_MAX \div x
         IN  IF (a > 0) = (b > 0) THEN y > q
             ELSE y > q /\ ~(y = q + 1 /\ INT_MAX % x = x - 1)

\* ---------------------------------------------------------- result codes
GTM_SUCCESS == "GTM_SUCCESS"
GTM_NULL_PTR == "GTM_NULL_PTR"
GTM_INVALID_BLOCK == "GTM_INVALID_BLOCK"
GTM_IN_BATCHED_GET == "GTM_IN_BATCHED_GET"
GTM_IN_BATCHED_PUT == "GTM_IN_BATCHED_PUT"
GTM_IN_BATCHED_ACC == "GTM_IN_BATCHED_ACC"
GTM_NO_BATCHED_PUT == "GTM_NO_BATCHED_PUT"
GTM_NO_BATCHED_ACC == "GTM_NO_BATCHED_ACC"
\* The call did not return: an assertion failed, MPI aborted, or a trap.
NO_RETURN == "NO_RETURN"

MPI_REPLACE == "MPI_REPLACE"
MPI_SUM == "MPI_SUM"
BLOCKING_ACCESS == "BLOCKING_ACCESS"
NONBLOCKING_ACCESS == "NONBLOCKING_ACCESS"
BATCH_ACCESS == "BATCH_ACCESS"

\* Largest side of a block served by the cached small-block datatypes
\* (GTMatrix_Typedef.h), scaled to the matrices of the model so that both
\* branches of the encoder run.
MPI_DT_SB_DIM_MAX == 2

MPI_LOCK_EXCLUSIVE == "MPI_LOCK_EXCLUSIVE"
MPI_LOCK_SHARED == "MPI_LOCK_SHARED"
LockTypes == { MPI_LOCK_EXCLUSIVE, MPI_LOCK_SHARED }

\* ------------------------------------------------------ the matrix handle
SetMax(S) == CHOOSE x \in S : \A y \in S : y <= x

\* The boundary tables of n rows (columns): 0 = t[0] < t[1] < ... < t[R] = n.
Tables(n) ==
    UNION { { t \in [0..R -> 0..n] :
                /\ t[0] = 0
                /\ t[R] = n
                /\ \A i \in 0..(R - 1) : t[i] < t[i + 1] } : R \in 1..n }

Blocks(t) == SetMax(DOMAIN t)

\* The fields of GTMatrix_t that the update path reads and never writes,
\* as the creation of the matrix leaves them.
MakeGtm(rd, cd, me, thr) ==
    [ nrows      |-> rd[Blocks(rd)],
      ncols      |-> cd[Blocks(cd)],
      r_blocks   |-> Blocks(rd),
      c_blocks   |-> Blocks(cd),
      r_displs   |-> rd,
      c_displs   |-> cd,
      ld_local   |-> SetMax({ cd[i + 1] - cd[i] : i \in 0..(Blocks(cd) - 1) }),
      unit_size  |-> 8,
      comm_size  |-> Blocks(rd) * Blocks(cd),
      my_rank    |-> me,
      max_nb_acc |-> thr,
      acc_lock_type |-> MPI_LOCK_EXCLUSIVE ]

Ranks(g) == 0..(g.comm_size - 1)

TileRows(g, d) == g.r_displs[(d \div g.c_blocks) + 1] - g.r_displs[d \div g.c_blocks]
TileCols(g, d) == g.c_displs[(d % g.c_blocks) + 1] - g.c_displs[d % g.c_blocks]

\* The window rank d exposes: ld_local elements for each row of its tile. When
\* the calls start every element holds a value of its own.
WinInit(g) ==
    [ d \in Ranks(g) |-> [ o \in 0..(g.ld_local * TileRows(g, d) - 1) |-> 1000 + 100 * d + o ] ]

\* The rank that owns cell (r, c) and the cell's place in that rank's window.
OwnerOf(g, r, c) ==
    LET br == CHOOSE i \in 0..(g.r_blocks - 1) : g.r_displs[i] <= r /\ r < g.r_displs[i + 1]
        bc == CHOOSE i \in 0..(g.c_blocks - 1) : g.c_displs[i] <= c /\ c < g.c_displs[i + 1]
    IN  [ rank |-> br * g.c_blocks + bc,
          off  |-> (r - g.r_displs[br]) * g.ld_local + (c - g.c_displs[bc]) ]

\* The logical matrix, read back from the windows.
Cell(g, w, r, c) == LET o == OwnerOf(g, r, c) IN w[o.rank][o.off]

\* ----------------------------------------------------- the source buffer
\* A caller's buffer holds base, base + step, base + 2 step, ... ; a pointer
\* into it is a byte address.
BufVal(b, idx) == b.base + b.step * idx
Ptr(b, addr) == [ buf |-> b, addr |-> addr ]
PtrAdd(p, bytes) == [ p EXCEPT !.addr = p.addr + bytes ]

\* ------------------------------------------------- the calling process
\* The state a call works on: the windows of all ranks (win), the transfers
\* issued and not yet complete at their target (pend), the ranks whose epoch
\* the caller holds (held), the non-blocking counters, the request queues,
\* the MPI calls of the current call (trace) and why the process died (fault).
Ev(e, d) == [ e |-> e, d |-> d, r_s |-> 0, r_num |-> 0, c_s |-> 0, c_num |-> 0 ]
SubEv(d, rs, rn, cs, cn) ==
    [ e |-> "sub", d |-> d, r_s |-> rs, r_num |-> rn, c_s |-> cs, c_num |-> cn ]

\* A lock of the window of d, with the lock type asked for.
LockEv(lock_type, d) ==
    [ e |-> "lock", d |-> d, r_s |-> 0, r_num |-> 0, c_s |-> 0, c_num |-> 0,
      lock_type |-> lock_type ]

\* The offset in the window of d that a transfer starts at.
PosEv(d, pos) ==
    [ e |-> "pos", d |-> d, r_s |-> pos, r_num |-> 0, c_s |-> 0, c_num |-> 0 ]

\* What the flush leaves: the epochs still held and the counters still not zero.
FlushEv(g, st) ==
    [ e |-> "flush", d |-> Cardinality(st.held),
      r_s |-> Cardinality({ i \in Ranks(g) : st.nb_op_proc_cnt[i] # 0 }),
      r_num |-> 0, c_s |-> 0, c_num |-> 0 ]

Log(st, ev) == [ st EXCEPT !.trace = Append(@, ev) ]
Die(st, why) == [ st EXCEPT !.fault = why ]

\* ------------------------------------------------------------------ MPI
MPI_Type_vector(count, blocklength, stride) ==
    [ count |-> count, blocklength |-> blocklength, stride |-> stride ]

TypeSize(dt) == dt.count * dt.blocklength
\* The displacement of the k-th element (k = 0, 1, ...) of a vector type.
TypeOff(dt, k) == (k \div dt.blocklength) * dt.stride + (k % dt.blocklength)

\* Locking a window the caller already holds locked is erroneous; the
\* default error handler of a window aborts the process.
MPI_Win_lock(lock_type, st, d) ==
    IF st.fault # "none" THEN st
    ELSE IF d \in st.held THEN Die(st, "lock_of_held_epoch")
    ELSE Log([ st EXCEPT !.held = @ \cup {d} ], LockEv(lock_type, d))

RECURSIVE ApplyWrites(_, _, _, _)
ApplyWrites(w, op, writes, k) ==
    IF k > Len(writes) THEN w
    ELSE LET x == writes[k]
             v == IF op = MPI_SUM THEN w[x.off] + x.val ELSE x.val
         IN  ApplyWrites([ w EXCEPT ![x.off] = v ], op, writes, k + 1)

RECURSIVE Complete(_, _, _)
\* The transfers ts[k..] land in window w, in the order they were issued.
Complete(w, ts, k) ==
    IF k > Len(ts) THEN w
    ELSE Complete(ApplyWrites(w, ts[k].op, ts[k].writes, 1), ts, k + 1)

\* Unlock completes every transfer issued to d in the epoch.
MPI_Win_unlock(st, d) ==
    IF st.fault # "none" THEN st
    ELSE IF d \notin st.held THEN Die(st, "unlock_of_free_epoch")
    ELSE Log([ st EXCEPT !.win[d]  = Complete(@, st.pend[d], 1),
                         !.pend[d] = << >>,
                         !.held    = @ \ {d} ], Ev("unlock", d))

\* The value at byte address p.addr + k * unit of the caller's buffer.
ReadElem(p, k, unit) ==
    LET a == p.addr + k * unit
    IN  IF a % unit = 0 THEN BufVal(p.buf, a \div unit) ELSE -1

\* MPI_Accumulate(src, 1, origin_dt, d, disp, 1, target_dt, op, win): the
\* k-th element of the origin type goes to the k-th element of the target
\* type. The transfer is issued, and complete at the target later.
MPI_Accumulate(g, st, src, origin_dt, d, disp, target_dt, op) ==
    LET n      == TypeSize(origin_dt)
        writes == [ k \in 1..n |->
                      [ off |-> disp + TypeOff(target_dt, k - 1),
                        val |-> ReadElem(src, TypeOff(origin_dt, k - 1), g.unit_size) ] ]
    IN  IF st.fault # "none" THEN st
        ELSE IF d \notin st.held THEN Die(st, "rma_outside_epoch")
        ELSE IF origin_dt.count < 1 \/ origin_dt.blocklength < 1
                \/ target_dt.count < 1 \/ target_dt.blocklength < 1
             THEN Die(st, "rma_bad_datatype")
        ELSE IF TypeSize(target_dt) # n THEN Die(st, "rma_size_mismatch")
        ELSE IF \E k \in 1..n : writes[k].off \notin DOMAIN st.win[d]
             THEN Die(st, "rma_outside_window")
        ELSE Log([ st EXCEPT !.pend[d] = Append(@, [ op |-> op, writes |-> writes ]) ],
                 Ev("acc", d))

\* ------------------------------------------- GTM_updateBlockToProcess
\* The cached small-block datatypes, built when the matrix is created.
sb_stride(g, id) ==
    MPI_Type_vector((id \div MPI_DT_SB_DIM_MAX) + 1, (id % MPI_DT_SB_DIM_MAX) + 1, g.ld_local)
sb_nostride(g, id) ==
    MPI_Type_vector((id \div MPI_DT_SB_DIM_MAX) + 1, (id % MPI_DT_SB_DIM_MAX) + 1,
                    (id % MPI_DT_SB_DIM_MAX) + 1)

\* The sanity check of the sub-block against the tile of dst_rank.
OutsideTile(g, dst_rank, row_start, row_num, col_start, col_num) ==
    LET dst_rowblk == dst_rank \div g.c_blocks
        dst_colblk == dst_rank % g.c_blocks
    IN  \/ row_start < g.r_displs[dst_rowblk]
        \/ col_start < g.c_displs[dst_colblk]
        \/ row_start + row_num > g.r_displs[dst_rowblk + 1]
        \/ col_start + col_num > g.c_displs[dst_colblk + 1]
        \/ row_num * col_num = 0

\* A variant that counts the rows from the top of the matrix.
dst_posGlobal(g, dst_rank, row_start, col_start) ==
    row_start * g.ld_local + (col_start - g.c_displs[dst_rank % g.c_blocks])

\* A variant that packs the rows of a tile at the tile's own width.
dst_posPacked(g, dst_rank, row_start, col_start) ==
    (row_start - g.r_displs[dst_rank \div g.c_blocks]) * TileCols(g, dst_rank)
        + (col_start - g.c_displs[dst_rank % g.c_blocks])

dst_pos(g, dst_rank, row_start, col_start) ==
    (row_start - g.r_displs[dst_rank \div g.c_blocks]) * g.ld_local
        + (col_start - g.c_displs[dst_rank % g.c_blocks])

\* The datatype that describes the block in the caller's buffer.
rcv_dt(g, row_num, col_num, src_buf_ld) ==
    LET block_dt_id == (row_num - 1) * MPI_DT_SB_DIM_MAX + (col_num - 1)
    IN  IF row_num <= MPI_DT_SB_DIM_MAX /\ col_num <= MPI_DT_SB_DIM_MAX
        THEN IF col_num = src_buf_ld THEN sb_nostride(g, block_dt_id)
             ELSE IF g.ld_local = src_buf_ld THEN sb_stride(g, block_dt_id)
             ELSE MPI_Type_vector(row_num, col_num, src_buf_ld)
        ELSE MPI_Type_vector(row_num, col_num, src_buf_ld)

\* The datatype that describes the block in the window of the target.
dst_dt(g, row_num, col_num) ==
    IF row_num <= MPI_DT_SB_DIM_MAX /\ col_num <= MPI_DT_SB_DIM_MAX
    THEN sb_stride(g, (row_num - 1) * MPI_DT_SB_DIM_MAX + (col_num - 1))
    ELSE MPI_Type_vector(row_num, col_num, g.ld_local)

GTM_updateBlockToProcess(g, st, dst_rank, op, row_start, row_num, col_start, col_num, src_buf, src_buf_ld) ==
    IF st.fault # "none" THEN [ ret |-> NO_RETURN, st |-> st ]
    ELSE IF OutsideTile(g, dst_rank, row_start, row_num, col_start, col_num)
    THEN [ ret |-> GTM_INVALID_BLOCK, st |-> st ]
    ELSE LET st0 == Log(st, PosEv(dst_rank, dst_pos(g, dst_rank, row_start, col_start)))
             st1 == MPI_Accumulate(g, st0, src_buf,
                                   rcv_dt(g, row_num, col_num, src_buf_ld),
                                   dst_rank,
                                   dst_pos(g, dst_rank, row_start, col_start),
                                   dst_dt(g, row_num, col_num), op)
         IN  [ ret |-> IF st1.fault = "none" THEN GTM_SUCCESS ELSE NO_RETURN,
               st  |-> st1 ]

\* ------------------------------------------------------- collaborators
\* utils: the intersection of two closed segments, and of two rectangles.
getSegmentIntersection(s0, e0, s1, e1) ==
    LET is == IF s0 > s1 THEN s0 ELSE s1
        ie == IF e0 < e1 THEN e0 ELSE e1
    IN  [ intersection |-> IF is <= ie THEN 1 ELSE 0, is |-> is, ie |-> ie ]

getRectIntersection(xs0, xe0, ys0, ye0, xs1, xe1, ys1, ye1) ==
    LET x == getSegmentIntersection(xs0, xe0, xs1, xe1)
        y == getSegmentIntersection(ys0, ye0, ys1, ye1)
    IN  [ need_to_fetch |-> IF x.intersection = 1 /\ y.intersection = 1 THEN 1 ELSE 0,
          blk_r_s |-> x.is, blk_r_e |-> x.ie, blk_c_s |-> y.is, blk_c_e |-> y.ie ]

\* The request queue of one destination: push appends, reset empties.
GTM_pushToReqVector(req_vec, op, blk_r_s, blk_r_num, blk_c_s, blk_c_num, blk_ptr, src_buf_ld) ==
    Append(req_vec, [ op |-> op, row_start |-> blk_r_s, row_num |-> blk_r_num,
                      col_start |-> blk_c_s, col_num |-> blk_c_num,
                      src_buf |-> blk_ptr, src_buf_ld |-> src_buf_ld ])

GTM_resetReqVector(req_vec) == << >>

RECURSIVE WaitLoop(_, _, _)
WaitLoop(g, st, i) ==
    IF i >= g.comm_size \/ st.fault # "none" THEN st
    ELSE IF st.nb_op_proc_cnt[i] # 0
         THEN LET st1 == MPI_Win_unlock(st, i)
              IN  WaitLoop(g, IF st1.fault # "none" THEN st1
                              ELSE [ st1 EXCEPT !.nb_op_proc_cnt[i] = 0 ], i + 1)
         ELSE WaitLoop(g, st, i + 1)

\* The flush of the non-blocking mode: every destination with outstanding
\* operations is unlocked, and all counters return to zero.
GTM_waitNB(g, st) ==
    LET st1 == WaitLoop(g, st, 0)
    IN  IF st1.fault # "none" THEN st1
        ELSE Log([ st1 EXCEPT !.nb_op_cnt = 0 ], FlushEv(g, st1))

\* ------------------------------------------------------ GTM_updateBlock
\* The check of the rectangle against the matrix, in the order C evaluates
\* it: "invalid", "ok", or "trap" when an overflowing operation traps.
CheckBlock(g, a, ub) ==
    IF a.row_start < 0 \/ a.col_start < 0 THEN "invalid"
    ELSE IF AddOverflows(a.row_start, a.row_num) /\ ub = "trap" THEN "trap"
    ELSE IF AddWrap(a.row_start, a.row_num) > g.nrows THEN "invalid"
    ELSE IF AddOverflows(a.col_start, a.col_num) /\ ub = "trap" THEN "trap"
    ELSE IF AddWrap(a.col_start, a.col_num) > g.ncols THEN "invalid"
    ELSE IF MulOverflows(a.row_num, a.col_num) /\ ub = "trap" THEN "trap"
    ELSE IF MulWrap(a.row_num, a.col_num) = 0 THEN "invalid"
    ELSE "ok"

\* start + num - 1 overflows.
EndOverflows(start, num) ==
    AddOverflows(start, num) \/ AddOverflows(AddWrap(start, num), -1)
EndOf(start, num) == AddWrap(AddWrap(start, num), -1)

\* The scan of a boundary table for the block that holds x: the last block
\* that matches is kept, and init when none does.
FindBlk(displs, nblk, x, init) ==
    LET S == { i \in 0..(nblk - 1) : displs[i] <= x /\ x < displs[i + 1] }
    IN  IF S = {} THEN init ELSE SetMax(S)

\* A variant whose loops stop before the end block ("<" for "<=").
BlkPairsExclusive(s_blk_r, e_blk_r, s_blk_c, e_blk_c) ==
    LET nr == IF e_blk_r > s_blk_r THEN e_blk_r - s_blk_r ELSE 0
        nc == IF e_blk_c > s_blk_c THEN e_blk_c - s_blk_c ELSE 0
    IN  [ k \in 1..(nr * nc) |->
            [ blk_r |-> s_blk_r + ((k - 1) \div nc), blk_c |-> s_blk_c + ((k - 1) % nc) ] ]

\* The blocks visited, row block by row block.
BlkPairs(s_blk_r, e_blk_r, s_blk_c, e_blk_c) ==
    LET nr == IF e_blk_r >= s_blk_r THEN e_blk_r - s_blk_r + 1 ELSE 0
        nc == IF e_blk_c >= s_blk_c THEN e_blk_c - s_blk_c + 1 ELSE 0
    IN  [ k \in 1..(nr * nc) |->
            [ blk_r |-> s_blk_r + ((k - 1) \div nc), blk_c |-> s_blk_c + ((k - 1) % nc) ] ]

Ret(ret, st) == [ ret |-> IF st.fault # "none" THEN NO_RETURN ELSE ret, st |-> st ]

\* A variant that leaves the epoch open.
BlockingUpdateKeepEpoch(g, st, a, dst_rank, blk_r_s, blk_r_num, blk_c_s, blk_c_num, blk_ptr) ==
    LET st1 == MPI_Win_lock(g.acc_lock_type, st, dst_rank)
        r   == GTM_updateBlockToProcess(g, st1, dst_rank, a.op, blk_r_s, blk_r_num,
                                        blk_c_s, blk_c_num, blk_ptr, a.src_buf_ld)
    IN  Ret(r.ret, r.st)

BlockingUpdate(g, st, a, dst_rank, blk_r_s, blk_r_num, blk_c_s, blk_c_num, blk_ptr) ==
    LET st1 == MPI_Win_lock(g.acc_lock_type, st, dst_rank)
        r   == GTM_updateBlockToProcess(g, st1, dst_rank, a.op, blk_r_s, blk_r_num,
                                        blk_c_s, blk_c_num, blk_ptr, a.src_buf_ld)
    IN  Ret(r.ret, MPI_Win_unlock(r.st, dst_rank))

\* A variant that locks however many operations are outstanding.
NonblockingUpdateAlwaysLock(g, st, a, dst_rank, blk_r_s, blk_r_num, blk_c_s, blk_c_num, blk_ptr) ==
    LET st1 == MPI_Win_lock(g.acc_lock_type, st, dst_rank)
        r   == GTM_updateBlockToProcess(g, st1, dst_rank, a.op, blk_r_s, blk_r_num,
                                        blk_c_s, blk_c_num, blk_ptr, a.src_buf_ld)
        st2 == IF r.st.fault # "none" THEN r.st
               ELSE [ r.st EXCEPT !.nb_op_proc_cnt[dst_rank] = @ + 1,
                                  !.nb_op_cnt = @ + 1 ]
        st3 == IF st2.fault = "none" /\ st2.nb_op_cnt >= g.max_nb_acc
               THEN GTM_waitNB(g, st2) ELSE st2
    IN  Ret(r.ret, st3)

\* A variant that flushes one operation late (">" for ">=").
NonblockingUpdateLate(g, st, a, dst_rank, blk_r_s, blk_r_num, blk_c_s, blk_c_num, blk_ptr) ==
    LET st1 == IF st.nb_op_proc_cnt[dst_rank] = 0 THEN MPI_Win_lock(g.acc_lock_type, st, dst_rank) ELSE st
        r   == GTM_updateBlockToProcess(g, st1, dst_rank, a.op, blk_r_s, blk_r_num,
                                        blk_c_s, blk_c_num, blk_ptr, a.src_buf_ld)
        st2 == IF r.st.fault # "none" THEN r.st
               ELSE [ r.st EXCEPT !.nb_op_proc_cnt[dst_rank] = @ + 1,
                                  !.nb_op_cnt = @ + 1 ]
        st3 == IF st2.fault = "none" /\ st2.nb_op_cnt > g.max_nb_acc
               THEN GTM_waitNB(g, st2) ELSE st2
    IN  Ret(r.ret, st3)

NonblockingUpdate(g, st, a, dst_rank, blk_r_s, blk_r_num, blk_c_s, blk_c_num, blk_ptr) ==
    LET st1 == IF st.nb_op_proc_cnt[dst_rank] = 0 THEN MPI_Win_lock(g.acc_lock_type, st, dst_rank) ELSE st
        r   == GTM_updateBlockToProcess(g, st1, dst_rank, a.op, blk_r_s, blk_r_num,
                                        blk_c_s, blk_c_num, blk_ptr, a.src_buf_ld)
        st2 == IF r.st.fault # "none" THEN r.st
               ELSE [ r.st EXCEPT !.nb_op_proc_cnt[dst_rank] = @ + 1,
                                  !.nb_op_cnt = @ + 1 ]
        st3 == IF st2.fault = "none" /\ st2.nb_op_cnt >= g.max_nb_acc
               THEN GTM_waitNB(g, st2) ELSE st2
    IN  Ret(r.ret, st3)

\* A variant that queues the caller's buffer, not the place of the piece in it.
BatchUpdateWholeBuffer(g, st, a, dst_rank, blk_r_s, blk_r_num, blk_c_s, blk_c_num, blk_ptr) ==
    Ret(GTM_SUCCESS,
        Log([ st EXCEPT !.req_vec[dst_rank] =
                GTM_pushToReqVector(@, a.op, blk_r_s, blk_r_num, blk_c_s, blk_c_num,
                                    a.src_buf, a.src_buf_ld) ],
            Ev("push", dst_rank)))

BatchUpdate(g, st, a, dst_rank, blk_r_s, blk_r_num, blk_c_s, blk_c_num, blk_ptr) ==
    Ret(GTM_SUCCESS,
        Log([ st EXCEPT !.req_vec[dst_rank] =
                GTM_pushToReqVector(@, a.op, blk_r_s, blk_r_num, blk_c_s, blk_c_num,
                                    blk_ptr, a.src_buf_ld) ],
            Ev("push", dst_rank)))

\* One pass of the loop body: the part of the rectangle in tile (blk_r, blk_c).
UpdateDest(g, st, a, row_end, col_end, blk_r, blk_c) ==
    LET dst_r_s  == g.r_displs[blk_r]
        dst_r_e  == g.r_displs[blk_r + 1] - 1
        dst_c_s  == g.c_displs[blk_c]
        dst_c_e  == g.c_displs[blk_c + 1] - 1
        dst_rank == blk_r * g.c_blocks + blk_c
        x        == getRectIntersection(dst_r_s, dst_r_e, dst_c_s, dst_c_e,
                                        a.row_start, row_end, a.col_start, col_end)
        blk_r_num == x.blk_r_e - x.blk_r_s + 1
        blk_c_num == x.blk_c_e - x.blk_c_s + 1
        row_dist  == x.blk_r_s - a.row_start
        col_dist  == x.blk_c_s - a.col_start
        blk_ptr   == PtrAdd(a.src_buf, (row_dist * a.src_buf_ld + col_dist) * g.unit_size)
        st0       == Log(st, SubEv(dst_rank, x.blk_r_s, blk_r_num, x.blk_c_s, blk_c_num))
    IN  IF x.need_to_fetch # 1 THEN Ret(NO_RETURN, Die(st, "assert_need_to_fetch"))
        ELSE IF a.access_mode = BLOCKING_ACCESS
             THEN BlockingUpdate(g, st0, a, dst_rank, x.blk_r_s, blk_r_num,
                                 x.blk_c_s, blk_c_num, blk_ptr)
        ELSE IF a.access_mode = NONBLOCKING_ACCESS
             THEN NonblockingUpdate(g, st0, a, dst_rank, x.blk_r_s, blk_r_num,
                                    x.blk_c_s, blk_c_num, blk_ptr)
        ELSE IF a.access_mode = BATCH_ACCESS
             THEN BatchUpdate(g, st0, a, dst_rank, x.blk_r_s, blk_r_num,
                              x.blk_c_s, blk_c_num, blk_ptr)
        ELSE Ret(GTM_SUCCESS, st0)

RECURSIVE UpdateLoop(_, _, _, _, _, _, _)
\* The two nested loops, left at the first result that is not success.
UpdateLoop(g, st, a, row_end, col_end, pairs, k) ==
    IF k > Len(pairs) THEN Ret(GTM_SUCCESS, st)
    ELSE LET r == UpdateDest(g, st, a, row_end, col_end, pairs[k].blk_r, pairs[k].blk_c)
         IN  IF r.ret # GTM_SUCCESS THEN r
             ELSE UpdateLoop(g, r.st, a, row_end, col_end, pairs, k + 1)

\* h is the handle the caller passes: "NULL" or "gtm".
GTM_updateBlock(h, g, st, a, ub) ==
    IF h = "NULL" THEN Ret(GTM_NULL_PTR, st)
    ELSE IF CheckBlock(g, a, ub) = "trap" THEN Ret(NO_RETURN, Die(st, "overflow_trap"))
    ELSE IF CheckBlock(g, a, ub) = "invalid" THEN Ret(GTM_INVALID_BLOCK, st)
    ELSE IF ub = "trap" /\ (EndOverflows(a.row_start, a.row_num)
                            \/ EndOverflows(a.col_start, a.col_num))
         THEN Ret(NO_RETURN, Die(st, "overflow_trap"))
    ELSE LET row_end == EndOf(a.row_start, a.row_num)
             col_end == EndOf(a.col_start, a.col_num)
             s_blk_r == FindBlk(g.r_displs, g.r_blocks, a.row_start, 0)
             e_blk_r == FindBlk(g.r_displs, g.r_blocks, row_end, -1)
             s_blk_c == FindBlk(g.c_displs, g.c_blocks, a.col_start, 0)
             e_blk_c == FindBlk(g.c_displs, g.c_blocks, col_end, -1)
         IN  UpdateLoop(g, st, a, row_end, col_end,
                        BlkPairs(s_blk_r, e_blk_r, s_blk_c, e_blk_c), 1)

\* -------------------------------------------------------- batch update
\* Variants of the start of a batch: one keeps the queues, one sets a single flag.
GTM_startBatchUpdateKeepQueues(h, g, st, f) ==
    IF h = "NULL" THEN [ ret |-> GTM_NULL_PTR, st |-> st, f |-> f ]
    ELSE IF f.in_batch_get # 0 THEN [ ret |-> GTM_IN_BATCHED_GET, st |-> st, f |-> f ]
    ELSE IF f.in_batch_put # 0 THEN [ ret |-> GTM_IN_BATCHED_PUT, st |-> st, f |-> f ]
    ELSE IF f.in_batch_acc # 0 THEN [ ret |-> GTM_IN_BATCHED_ACC, st |-> st, f |-> f ]
    ELSE [ ret |-> GTM_SUCCESS, st |-> st,
           f |-> [ f EXCEPT !.in_batch_put = 1, !.in_batch_acc = 1 ] ]

GTM_startBatchUpdatePutOnly(h, g, st, f) ==
    IF h = "NULL" THEN [ ret |-> GTM_NULL_PTR, st |-> st, f |-> f ]
    ELSE IF f.in_batch_get # 0 THEN [ ret |-> GTM_IN_BATCHED_GET, st |-> st, f |-> f ]
    ELSE IF f.in_batch_put # 0 THEN [ ret |-> GTM_IN_BATCHED_PUT, st |-> st, f |-> f ]
    ELSE IF f.in_batch_acc # 0 THEN [ ret |-> GTM_IN_BATCHED_ACC, st |-> st, f |-> f ]
    ELSE [ ret |-> GTM_SUCCESS,
           st  |-> [ st EXCEPT !.req_vec = [ i \in Ranks(g) |-> GTM_resetReqVector(st.req_vec[i]) ] ],
           f   |-> [ f EXCEPT !.in_batch_put = 1 ] ]

\* f holds the three batch flags of the handle.
GTM_startBatchUpdate(h, g, st, f) ==
    IF h = "NULL" THEN [ ret |-> GTM_NULL_PTR, st |-> st, f |-> f ]
    ELSE IF f.in_batch_get # 0 THEN [ ret |-> GTM_IN_BATCHED_GET, st |-> st, f |-> f ]
    ELSE IF f.in_batch_put # 0 THEN [ ret |-> GTM_IN_BATCHED_PUT, st |-> st, f |-> f ]
    ELSE IF f.in_batch_acc # 0 THEN [ ret |-> GTM_IN_BATCHED_ACC, st |-> st, f |-> f ]
    ELSE [ ret |-> GTM_SUCCESS,
           st  |-> [ st EXCEPT !.req_vec = [ i \in Ranks(g) |-> GTM_resetReqVector(st.req_vec[i]) ] ],
           f   |-> [ f EXCEPT !.in_batch_put = 1, !.in_batch_acc = 1 ] ]

RECURSIVE ReplayLoopReversed(_, _, _, _, _)
\* A variant that replays the queue from its last request to its first.
ReplayLoopReversed(g, st, dst_rank, q, i) ==
    IF i > Len(q) THEN Ret(GTM_SUCCESS, st)
    ELSE LET j == Len(q) + 1 - i
             r == GTM_updateBlockToProcess(g, st, dst_rank, q[j].op,
                                           q[j].row_start, q[j].row_num,
                                           q[j].col_start, q[j].col_num,
                                           q[j].src_buf, q[j].src_buf_ld)
         IN  IF r.ret # GTM_SUCCESS THEN r
             ELSE ReplayLoopReversed(g, r.st, dst_rank, q, i + 1)

RECURSIVE ReplayLoop(_, _, _, _, _)
\* The queued requests of dst_rank, from the i-th on, in the order queued.
ReplayLoop(g, st, dst_rank, q, i) ==
    IF i > Len(q) THEN Ret(GTM_SUCCESS, st)
    ELSE LET r == GTM_updateBlockToProcess(g, st, dst_rank, q[i].op,
                                           q[i].row_start, q[i].row_num,
                                           q[i].col_start, q[i].col_num,
                                           q[i].src_buf, q[i].src_buf_ld)
         IN  IF r.ret # GTM_SUCCESS THEN r
             ELSE ReplayLoop(g, r.st, dst_rank, q, i + 1)

RECURSIVE ExecLoopKeepQueues(_, _, _)
\* A variant that leaves the replayed requests in their queues.
ExecLoopKeepQueues(g, st, k) ==
    IF k >= g.comm_size THEN Ret(GTM_SUCCESS, st)
    ELSE LET dst_rank == (g.my_rank + k) % g.comm_size
             q        == st.req_vec[dst_rank]
             st0      == Log(st, Ev("visit", dst_rank))
             r        == ReplayLoop(g, MPI_Win_lock(g.acc_lock_type, st0, dst_rank), dst_rank, q, 1)
             st1      == IF Len(q) > 0 THEN MPI_Win_unlock(r.st, dst_rank) ELSE st0
         IN  IF Len(q) > 0 /\ r.ret # GTM_SUCCESS THEN r
             ELSE IF st1.fault # "none" THEN Ret(NO_RETURN, st1)
             ELSE ExecLoopKeepQueues(g, st1, k + 1)

RECURSIVE ExecLoopFromZero(_, _, _)
\* A variant that starts at rank 0 whoever calls.
ExecLoopFromZero(g, st, k) ==
    IF k >= g.comm_size THEN Ret(GTM_SUCCESS, st)
    ELSE LET dst_rank == k
             q        == st.req_vec[dst_rank]
             st0      == Log(st, Ev("visit", dst_rank))
             r        == ReplayLoop(g, MPI_Win_lock(g.acc_lock_type, st0, dst_rank), dst_rank, q, 1)
             st1      == IF Len(q) > 0 THEN MPI_Win_unlock(r.st, dst_rank) ELSE st0
         IN  IF Len(q) > 0 /\ r.ret # GTM_SUCCESS THEN r
             ELSE IF st1.fault # "none" THEN Ret(NO_RETURN, st1)
             ELSE ExecLoopFromZero(g, [ st1 EXCEPT !.req_vec[dst_rank] = GTM_resetReqVector(@) ],
                                   k + 1)

RECURSIVE ExecLoop(_, _, _)
\* The destinations my_rank + k, my_rank + k + 1, ... modulo comm_size.
ExecLoop(g, st, k) ==
    IF k >= g.comm_size THEN Ret(GTM_SUCCESS, st)
    ELSE LET dst_rank == (g.my_rank + k) % g.comm_size
             q        == st.req_vec[dst_rank]
             st0      == Log(st, Ev("visit", dst_rank))
             r        == ReplayLoop(g, MPI_Win_lock(g.acc_lock_type, st0, dst_rank), dst_rank, q, 1)
             st1      == IF Len(q) > 0 THEN MPI_Win_unlock(r.st, dst_rank) ELSE st0
         IN  IF Len(q) > 0 /\ r.ret # GTM_SUCCESS THEN r
             ELSE IF st1.fault # "none" THEN Ret(NO_RETURN, st1)
             ELSE ExecLoop(g, [ st1 EXCEPT !.req_vec[dst_rank] = GTM_resetReqVector(@) ],
                           k + 1)

\* A variant that executes without asking whether a batch is active.
GTM_execBatchUpdateAnyState(h, g, st, f) ==
    IF h = "NULL" THEN [ ret |-> NO_RETURN, st |-> Die(st, "null_dereference"), f |-> f ]
    ELSE LET r == ExecLoop(g, st, 0) IN [ ret |-> r.ret, st |-> r.st, f |-> f ]

GTM_execBatchUpdate(h, g, st, f) ==
    IF h = "NULL" THEN [ ret |-> NO_RETURN, st |-> Die(st, "null_dereference"), f |-> f ]
    ELSE IF f.in_batch_put = 0 THEN [ ret |-> GTM_NO_BATCHED_PUT, st |-> st, f |-> f ]
    ELSE IF f.in_batch_acc = 0 THEN [ ret |-> GTM_NO_BATCHED_ACC, st |-> st, f |-> f ]
    ELSE LET r == ExecLoop(g, st, 0) IN [ ret |-> r.ret, st |-> r.st, f |-> f ]

\* A variant that stops a batch without asking whether one is active.
GTM_stopBatchUpdateAnyState(h, g, st, f) ==
    IF h = "NULL" THEN [ ret |-> GTM_NULL_PTR, st |-> st, f |-> f ]
    ELSE [ ret |-> GTM_SUCCESS, st |-> st,
           f |-> [ f EXCEPT !.in_batch_put = 0, !.in_batch_acc = 0 ] ]

GTM_stopBatchUpdate(h, g, st, f) ==
    IF h = "NULL" THEN [ ret |-> GTM_NULL_PTR, st |-> st, f |-> f ]
    ELSE IF f.in_batch_put = 0 THEN [ ret |-> GTM_NO_BATCHED_PUT, st |-> st, f |-> f ]
    ELSE IF f.in_batch_acc = 0 THEN [ ret |-> GTM_NO_BATCHED_ACC, st |-> st, f |-> f ]
    ELSE [ ret |-> GTM_SUCCESS, st |-> st,
           f |-> [ f EXCEPT !.in_batch_put = 0, !.in_batch_acc = 0 ] ]

\* The batched get of the read path: it starts only when no batch is active.
GTM_startBatchGet(h, g, st, f) ==
    IF h = "NULL" THEN [ ret |-> GTM_NULL_PTR, st |-> st, f |-> f ]
    ELSE IF f.in_batch_put # 0 THEN [ ret |-> GTM_IN_BATCHED_PUT, st |-> st, f |-> f ]
    ELSE IF f.in_batch_acc # 0 THEN [ ret |-> GTM_IN_BATCHED_ACC, st |-> st, f |-> f ]
    ELSE IF f.in_batch_get # 0 THEN [ ret |-> GTM_IN_BATCHED_GET, st |-> st, f |-> f ]
    ELSE [ ret |-> GTM_SUCCESS, st |-> st, f |-> [ f EXCEPT !.in_batch_get = 1 ] ]

GTM_stopBatchGet(h, g, st, f) ==
    IF h = "NULL" THEN [ ret |-> GTM_NULL_PTR, st |-> st, f |-> f ]
    ELSE IF f.in_batch_get = 0 THEN [ ret |-> "GTM_NO_BATCHED_GET", st |-> st, f |-> f ]
    ELSE [ ret |-> GTM_SUCCESS, st |-> st, f |-> [ f EXCEPT !.in_batch_get = 0 ] ]

\* ------------------------------------------------------------ wrappers
GTM_putBlock(h, g, st, x, ub) ==
    IF h = "NULL" THEN Ret(GTM_NULL_PTR, st)
    ELSE GTM_updateBlock(h, g, st, x @@ [ op |-> MPI_REPLACE, access_mode |-> BLOCKING_ACCESS ], ub)
\* A variant of GTM_accBlock that replaces where it should add.
GTM_accBlockReplacing(h, g, st, x, ub) ==
    IF h = "NULL" THEN Ret(GTM_NULL_PTR, st)
    ELSE GTM_updateBlock(h, g, st, x @@ [ op |-> MPI_REPLACE, access_mode |-> BLOCKING_ACCESS ], ub)

GTM_accBlock(h, g, st, x, ub) ==
    IF h = "NULL" THEN Ret(GTM_NULL_PTR, st)
    ELSE GTM_updateBlock(h, g, st, x @@ [ op |-> MPI_SUM, access_mode |-> BLOCKING_ACCESS ], ub)
GTM_putBlockNB(h, g, st, x, ub) ==
    IF h = "NULL" THEN Ret(GTM_NULL_PTR, st)
    ELSE GTM_updateBlock(h, g, st, x @@ [ op |-> MPI_REPLACE, access_mode |-> NONBLOCKING_ACCESS ], ub)
GTM_accBlockNB(h, g, st, x, ub) ==
    IF h = "NULL" THEN Ret(GTM_NULL_PTR, st)
    ELSE GTM_updateBlock(h, g, st, x @@ [ op |-> MPI_SUM, access_mode |-> NONBLOCKING_ACCESS ], ub)
GTM_addPutBlockRequest(h, g, st, x, ub) ==
    IF h = "NULL" THEN Ret(GTM_NULL_PTR, st)
    ELSE GTM_updateBlock(h, g, st, x @@ [ op |-> MPI_REPLACE, access_mode |-> BATCH_ACCESS ], ub)
GTM_addAccBlockRequest(h, g, st, x, ub) ==
    IF h = "NULL" THEN Ret(GTM_NULL_PTR, st)
    ELSE GTM_updateBlock(h, g, st, x @@ [ op |-> MPI_SUM, access_mode |-> BATCH_ACCESS ], ub)

\* ---------------------------------------------------------------- state
VARIABLES
    gtm,             \* the read-only fields of the handle
    win,             \* win[d][o]: element o of the window of rank d
    pend,            \* pend[d]: transfers issued to d, not yet complete
    held,            \* the ranks whose epoch the caller holds
    nb_op_proc_cnt,  \* gtm->nb_op_proc_cnt
    nb_op_cnt,       \* gtm->nb_op_cnt
    req_vec,         \* gtm->req_vec
    in_batch_get, in_batch_put, in_batch_acc,
    trace,           \* what the last call did, in order
    fault,           \* "none", or why the process died
    call,            \* the last call and its result
    hist,            \* the last two calls, each with the windows it found
    ncalls,          \* calls made so far
    scope,           \* which calls and arguments the caller draws from
    mp               \* several calling processes: the windows, and each process

vars == << gtm, win, pend, held, nb_op_proc_cnt, nb_op_cnt, req_vec,
           in_batch_get, in_batch_put, in_batch_acc, trace, fault, call, hist, ncalls, scope, mp >>

Tab(q) == [ i \in 0..(Len(q) - 1) |-> q[i + 1] ]

\* Two rows and three columns on a 2 x 2 grid: tiles of 1 x 2 and 1 x 1.
Uneven23 == MakeGtm(Tab(<< 0, 1, 2 >>), Tab(<< 0, 2, 3 >>), 1, MaxThreshold)

\* Four rows and four columns on a 2 x 2 grid of 2 x 2 tiles.
Grid44 == MakeGtm(Tab(<< 0, 2, 4 >>), Tab(<< 0, 2, 4 >>), 0, MaxThreshold)

Geometries ==
    { MakeGtm(rd, cd, 0, MaxThreshold) :
        rd \in UNION { Tables(n) : n \in 1..MaxDim },
        cd \in UNION { Tables(n) : n \in 1..MaxDim } }

Budget ==
    CASE scope = "geom"     -> 1
      [] scope = "args"     -> 1
      [] scope = "blocking" -> MaxBlockingCalls
      [] scope = "nb"       -> MaxNBCalls
      [] scope = "batch"    -> MaxBatchCalls
      [] scope = "mixed"    -> MaxMixedCalls

Iota(b) == [ base |-> b, step |-> 1 ]
Fill(v) == [ base |-> v, step |-> 0 ]

Rect(rs, rn, cs, cn) ==
    [ row_start |-> rs, row_num |-> rn, col_start |-> cs, col_num |-> cn ]

\* Every non-empty rectangle inside the matrix.
ValidRects(g) ==
    { Rect(q[1], q[2], q[3], q[4]) :
        q \in { q \in (0..(g.nrows - 1)) \X (1..g.nrows) \X (0..(g.ncols - 1)) \X (1..g.ncols) :
                  q[1] + q[2] <= g.nrows /\ q[3] + q[4] <= g.ncols } }

\* One cell, two cells of the same tile, the last cell, the whole matrix.
FewRects(g) ==
    { Rect(0, 1, 0, 1), Rect(0, 1, 0, g.c_displs[1]),
      Rect(g.nrows - 1, 1, g.ncols - 1, 1), Rect(0, g.nrows, 0, g.ncols) }

\* Arguments of any sign and size, inside and outside the matrix.
ArgInts(g) == (-1..(SetMax({ g.nrows, g.ncols }) + 1)) \cup { INT_MAX }
AnyRects(g) ==
    { Rect(q[1], q[2], q[3], q[4]) : q \in ArgInts(g) \X ArgInts(g) \X ArgInts(g) \X ArgInts(g) }

WithBuf(r, b, ld) == r @@ [ src_buf |-> Ptr(b, 0), src_buf_ld |-> ld ]

\* The arguments a caller passes: a rectangle, a buffer and its stride.
Inputs ==
    CASE scope = "geom" ->
           { WithBuf(r, Iota(1), gtm.ncols) : r \in ValidRects(gtm) }
      [] scope = "args" ->
           { WithBuf(r, Iota(1), gtm.ncols) : r \in AnyRects(gtm) }
      [] scope = "blocking" ->
           { WithBuf(r, Iota(1), gtm.ncols + 1) : r \in ValidRects(gtm) }
               \cup { WithBuf(r, Fill(2), r.col_num) : r \in FewRects(gtm) }
      [] scope = "nb" ->
           { WithBuf(r, Iota(1), r.col_num) : r \in FewRects(gtm) }
      [] scope = "mixed" ->
           { WithBuf(r, Iota(1), r.col_num) : r \in FewRects(gtm) }
      [] scope = "batch" ->
           UNION { { WithBuf(r, Iota(1), r.col_num), WithBuf(r, Fill(7), gtm.ncols) } :
                   r \in { Rect(0, 1, 0, 1), Rect(0, gtm.nrows, 0, gtm.ncols) } }

NullInput == WithBuf(Rect(0, 1, 0, 1), Iota(1), 1)

\* The calls a caller makes: with its handle, or (where the scope has it)
\* with no handle.
Calls ==
    ({ "gtm" } \X Inputs)
        \cup (IF scope = "args" THEN { "NULL" } \X { NullInput } ELSE {})

Handles == IF scope = "args" THEN { "gtm", "NULL" } ELSE { "gtm" }

\* Only arguments outside the matrix make the arithmetic of a call overflow.
UBs == IF scope = "args" THEN UBOutcomes ELSE { "wrap" }

NoArgs == WithBuf(Rect(0, 0, 0, 0), Fill(0), 0)

InitCaller(g, sc) ==
    /\ gtm = g
    /\ scope = sc
    /\ win = WinInit(g)
    /\ pend = [ d \in Ranks(g) |-> << >> ]
    /\ held = {}
    /\ nb_op_proc_cnt = [ d \in Ranks(g) |-> 0 ]
    /\ nb_op_cnt = 0
    /\ req_vec = [ d \in Ranks(g) |-> << >> ]
    /\ in_batch_get = 0
    /\ in_batch_put = 0
    /\ in_batch_acc = 0
    /\ trace = << >>
    /\ fault = "none"
    /\ call = [ fn |-> "none", h |-> "gtm", ret |-> GTM_SUCCESS ] @@ NoArgs
    /\ hist = << >>
    /\ ncalls = 0

\* Where one process calls, mp holds nothing.
NoMP == [ win |-> << >>, proc |-> << >> ]

InitWith(g, sc) == InitCaller(g, sc) /\ mp = NoMP

St == [ win |-> win, pend |-> pend, held |-> held, nb_op_proc_cnt |-> nb_op_proc_cnt,
        nb_op_cnt |-> nb_op_cnt, req_vec |-> req_vec, trace |-> << >>, fault |-> fault ]

Flags == [ in_batch_get |-> in_batch_get, in_batch_put |-> in_batch_put,
           in_batch_acc |-> in_batch_acc ]

Commit(st) ==
    /\ win' = st.win
    /\ pend' = st.pend
    /\ held' = st.held
    /\ nb_op_proc_cnt' = st.nb_op_proc_cnt
    /\ nb_op_cnt' = st.nb_op_cnt
    /\ req_vec' = st.req_vec
    /\ trace' = st.trace
    /\ fault' = st.fault

CommitFlags(f) ==
    /\ in_batch_get' = f.in_batch_get
    /\ in_batch_put' = f.in_batch_put
    /\ in_batch_acc' = f.in_batch_acc

CanCall == fault = "none" /\ ncalls < Budget

Returned(fn, h, x, r) ==
    /\ Commit(r.st)
    /\ call' = [ fn |-> fn, h |-> h, ret |-> r.ret ] @@ x
    /\ hist' = Append(IF Len(hist) = 2 THEN Tail(hist) ELSE hist,
                      [ call |-> call', win |-> win ])
    /\ ncalls' = ncalls + 1
    /\ UNCHANGED << gtm, scope, mp >>

\* ---------------------------------------------------------------- calls
PutBlock ==
    /\ CanCall
    /\ \E c \in Calls, ub \in UBs :
          Returned("GTM_putBlock", c[1], c[2], GTM_putBlock(c[1], gtm, St, c[2], ub))
    /\ UNCHANGED << in_batch_get, in_batch_put, in_batch_acc >>

AccBlock ==
    /\ CanCall
    /\ \E c \in Calls, ub \in UBs :
          Returned("GTM_accBlock", c[1], c[2], GTM_accBlock(c[1], gtm, St, c[2], ub))
    /\ UNCHANGED << in_batch_get, in_batch_put, in_batch_acc >>

PutBlockNB ==
    /\ CanCall
    /\ \E c \in Calls, ub \in UBs :
          Returned("GTM_putBlockNB", c[1], c[2], GTM_putBlockNB(c[1], gtm, St, c[2], ub))
    /\ UNCHANGED << in_batch_get, in_batch_put, in_batch_acc >>

AccBlockNB ==
    /\ CanCall
    /\ \E c \in Calls, ub \in UBs :
          Returned("GTM_accBlockNB", c[1], c[2], GTM_accBlockNB(c[1], gtm, St, c[2], ub))
    /\ UNCHANGED << in_batch_get, in_batch_put, in_batch_acc >>

AddPutBlockRequest ==
    /\ CanCall
    /\ \E c \in Calls, ub \in UBs :
          Returned("GTM_addPutBlockRequest", c[1], c[2],
                   GTM_addPutBlockRequest(c[1], gtm, St, c[2], ub))
    /\ UNCHANGED << in_batch_get, in_batch_put, in_batch_acc >>

AddAccBlockRequest ==
    /\ CanCall
    /\ \E c \in Calls, ub \in UBs :
          Returned("GTM_addAccBlockRequest", c[1], c[2],
                   GTM_addAccBlockRequest(c[1], gtm, St, c[2], ub))
    /\ UNCHANGED << in_batch_get, in_batch_put, in_batch_acc >>

StartBatchUpdate ==
    /\ CanCall
    /\ \E h \in Handles :
          LET r == GTM_startBatchUpdate(h, gtm, St, Flags)
          IN  Returned("GTM_startBatchUpdate", h, NoArgs, r) /\ CommitFlags(r.f)

ExecBatchUpdate ==
    /\ CanCall
    /\ \E h \in Handles :
          LET r == GTM_execBatchUpdate(h, gtm, St, Flags)
          IN  Returned("GTM_execBatchUpdate", h, NoArgs, r) /\ CommitFlags(r.f)

StopBatchUpdate ==
    /\ CanCall
    /\ \E h \in Handles :
          LET r == GTM_stopBatchUpdate(h, gtm, St, Flags)
          IN  Returned("GTM_stopBatchUpdate", h, NoArgs, r) /\ CommitFlags(r.f)

StartBatchGet ==
    /\ CanCall
    /\ LET r == GTM_startBatchGet("gtm", gtm, St, Flags)
       IN  Returned("GTM_startBatchGet", "gtm", NoArgs, r) /\ CommitFlags(r.f)

StopBatchGet ==
    /\ CanCall
    /\ LET r == GTM_stopBatchGet("gtm", gtm, St, Flags)
       IN  Returned("GTM_stopBatchGet", "gtm", NoArgs, r) /\ CommitFlags(r.f)

WaitNB ==
    /\ CanCall
    /\ Returned("GTM_waitNB", "gtm", NoArgs, Ret(GTM_SUCCESS, GTM_waitNB(gtm, St)))
    /\ UNCHANGED << in_batch_get, in_batch_put, in_batch_acc >>

\* MPI completes the oldest outstanding transfer to some rank early.
Progress ==
    /\ fault = "none"
    /\ \E d \in held :
          /\ pend[d] # << >>
          /\ win' = [ win EXCEPT ![d] = ApplyWrites(@, Head(pend[d]).op, Head(pend[d]).writes, 1) ]
          /\ pend' = [ pend EXCEPT ![d] = Tail(@) ]
    /\ UNCHANGED << gtm, held, nb_op_proc_cnt, nb_op_cnt, req_vec, in_batch_get,
                    in_batch_put, in_batch_acc, trace, fault, call, hist, ncalls, scope, mp >>

\* ------------------------------------------------- several processes
\* The processes of ranks 0 and 1 call on the same matrix. Each has its own
\* handle (epochs held, counters, transfers outstanding) and is somewhere in
\* the loops of GTM_updateBlock: pairs[k] is the block it handles next.
\* MPI_Win_lock with the exclusive lock type waits while another process
\* holds the epoch of the rank.
Procs == { 0, 1 }

NoCall == NoArgs @@ [ op |-> MPI_REPLACE, access_mode |-> BLOCKING_ACCESS ]

MPStart(g) ==
    [ win  |-> WinInit(g),
      proc |-> [ p \in Procs |->
                   [ held |-> {}, pend |-> [ d \in Ranks(g) |-> << >> ],
                     nb_op_proc_cnt |-> [ d \in Ranks(g) |-> 0 ], nb_op_cnt |-> 0,
                     fault |-> "none", a |-> NoCall, pairs |-> << >>, k |-> 1,
                     done |-> 0 ] ] ]

\* The state the call of process p works on.
MPSt(p) ==
    [ win |-> mp.win, pend |-> mp.proc[p].pend, held |-> mp.proc[p].held,
      nb_op_proc_cnt |-> mp.proc[p].nb_op_proc_cnt, nb_op_cnt |-> mp.proc[p].nb_op_cnt,
      req_vec |-> [ d \in Ranks(gtm) |-> << >> ], trace |-> << >>,
      fault |-> mp.proc[p].fault ]

\* The blocks the loops of GTM_updateBlock visit for the rectangle of a.
DestPairs(g, a) ==
    BlkPairs(FindBlk(g.r_displs, g.r_blocks, a.row_start, 0),
             FindBlk(g.r_displs, g.r_blocks, EndOf(a.row_start, a.row_num), -1),
             FindBlk(g.c_displs, g.c_blocks, a.col_start, 0),
             FindBlk(g.c_displs, g.c_blocks, EndOf(a.col_start, a.col_num), -1))

\* An error of one process aborts them all.
MPAlive == \A p \in Procs : mp.proc[p].fault = "none"

Running(p) == mp.proc[p].k <= Len(mp.proc[p].pairs)

\* The rank process p handles next.
Dst(p) ==
    mp.proc[p].pairs[mp.proc[p].k].blk_r * gtm.c_blocks + mp.proc[p].pairs[mp.proc[p].k].blk_c

\* The next pass of the loop of p starts with MPI_Win_lock.
NeedsLock(p) ==
    /\ Running(p)
    /\ \/ mp.proc[p].a.access_mode = BLOCKING_ACCESS
       \/ mp.proc[p].nb_op_proc_cnt[Dst(p)] = 0

\* p is in MPI_Win_lock for an epoch that q holds.
WaitsFor(p, q) ==
    /\ p # q
    /\ NeedsLock(p)
    /\ gtm.acc_lock_type = MPI_LOCK_EXCLUSIVE
    /\ Dst(p) \in mp.proc[q].held

SingleCaller ==
    << gtm, win, pend, held, nb_op_proc_cnt, nb_op_cnt, req_vec, in_batch_get,
       in_batch_put, in_batch_acc, trace, fault, call, hist, ncalls, scope >>

\* Process p enters GTM_putBlock or GTM_putBlockNB.
MPCall ==
    /\ MPAlive
    /\ \E p \in Procs, mode \in { BLOCKING_ACCESS, NONBLOCKING_ACCESS }, r \in FewRects(gtm) :
          LET a == WithBuf(r, Fill(7), r.col_num)
                       @@ [ op |-> MPI_REPLACE, access_mode |-> mode ]
          IN  /\ ~Running(p)
              /\ mp.proc[p].done < MaxMPCalls
              /\ mp' = [ mp EXCEPT !.proc[p].a = a,
                                   !.proc[p].pairs = DestPairs(gtm, a),
                                   !.proc[p].k = 1 ]
    /\ UNCHANGED SingleCaller

\* Process p makes one pass of the loop, once the lock it needs is free;
\* after the last pass the call returns.
MPStep ==
    /\ MPAlive
    /\ \E p \in Procs :
          /\ Running(p)
          /\ \A q \in Procs : ~WaitsFor(p, q)
          /\ LET me == mp.proc[p]
                 r  == UpdateDest([ gtm EXCEPT !.my_rank = p ], MPSt(p), me.a,
                                  EndOf(me.a.row_start, me.a.row_num),
                                  EndOf(me.a.col_start, me.a.col_num),
                                  me.pairs[me.k].blk_r, me.pairs[me.k].blk_c)
             IN  mp' = [ win  |-> r.st.win,
                         proc |-> [ mp.proc EXCEPT ![p] =
                                      [ me EXCEPT !.held = r.st.held,
                                                  !.pend = r.st.pend,
                                                  !.nb_op_proc_cnt = r.st.nb_op_proc_cnt,
                                                  !.nb_op_cnt = r.st.nb_op_cnt,
                                                  !.fault = r.st.fault,
                                                  !.k = me.k + 1,
                                                  !.done = IF me.k = Len(me.pairs)
                                                           THEN me.done + 1 ELSE me.done ] ] ]
    /\ UNCHANGED SingleCaller

\* Process p calls GTM_waitNB between two update calls.
MPWaitNB ==
    /\ MPAlive
    /\ \E p \in Procs :
          /\ ~Running(p)
          /\ mp.proc[p].done < MaxMPCalls
          /\ LET me == mp.proc[p]
                 st == GTM_waitNB([ gtm EXCEPT !.my_rank = p ], MPSt(p))
             IN  mp' = [ win  |-> st.win,
                         proc |-> [ mp.proc EXCEPT ![p] =
                                      [ me EXCEPT !.held = st.held,
                                                  !.pend = st.pend,
                                                  !.nb_op_proc_cnt = st.nb_op_proc_cnt,
                                                  !.nb_op_cnt = st.nb_op_cnt,
                                                  !.fault = st.fault,
                                                  !.done = me.done + 1 ] ] ]
    /\ UNCHANGED SingleCaller

\* ------------------------------------------------------ specifications
\* One call on every matrix of up to MaxDim rows and columns, and on the
\* 4 x 4 matrix of four 2 x 2 tiles.
InitGeom == \E g \in Geometries \cup { Grid44 } : InitWith(g, "geom")
NextGeom ==
    \/ PutBlock \/ AccBlock \/ PutBlockNB \/ AccBlockNB
    \/ AddPutBlockRequest \/ AddAccBlockRequest
SpecGeom == InitGeom /\ [][NextGeom]_vars

\* One call with arguments of any sign and size.
InitArgs == InitWith(Uneven23, "args")
NextArgs ==
    \/ PutBlock \/ AccBlock \/ PutBlockNB \/ AccBlockNB
    \/ AddPutBlockRequest \/ AddAccBlockRequest
    \/ StartBatchUpdate \/ ExecBatchUpdate \/ StopBatchUpdate
SpecArgs == InitArgs /\ [][NextArgs]_vars

\* Sequences of blocking calls.
InitBlocking ==
    \E lt \in LockTypes : InitWith([ Uneven23 EXCEPT !.acc_lock_type = lt ], "blocking")
NextBlocking == PutBlock \/ AccBlock
SpecBlocking == InitBlocking /\ [][NextBlocking]_vars

\* Sequences of non-blocking calls and flushes.
InitNB == \E thr \in 1..MaxThreshold : InitWith([ Uneven23 EXCEPT !.max_nb_acc = thr ], "nb")
NextNB == PutBlockNB \/ AccBlockNB \/ WaitNB \/ Progress
SpecNB == InitNB /\ [][NextNB]_vars

\* Sequences of batch calls.
InitBatch == InitWith(Uneven23, "batch")
NextBatch ==
    \/ StartBatchUpdate \/ ExecBatchUpdate \/ StopBatchUpdate
    \/ AddPutBlockRequest \/ AddAccBlockRequest
    \/ StartBatchGet \/ StopBatchGet
SpecBatch == InitBatch /\ [][NextBatch]_vars

\* Sequences of calls of all three access modes by one process.
InitMixed == InitWith(Uneven23, "mixed")
NextMixed ==
    \/ PutBlock \/ PutBlockNB \/ WaitNB
    \/ StartBatchUpdate \/ AddAccBlockRequest \/ ExecBatchUpdate
SpecMixed == InitMixed /\ [][NextMixed]_vars

\* Two processes, blocking and non-blocking calls, either lock type.
InitMP ==
    \E lt \in LockTypes :
        /\ InitCaller([ Uneven23 EXCEPT !.acc_lock_type = lt ], "mp")
        /\ mp = MPStart(Uneven23)
NextMP == MPCall \/ MPStep \/ MPWaitNB
SpecMP == InitMP /\ [][NextMP]_vars

\* ------------------------------------------------------------- properties
UpdateFns ==
    { "GTM_putBlock", "GTM_accBlock", "GTM_putBlockNB", "GTM_accBlockNB",
      "GTM_addPutBlockRequest", "GTM_addAccBlockRequest" }

\* The per-destination pieces of the last call, in the order dispatched.
Subs == SelectSeq(trace, LAMBDA ev : ev.e = "sub")

InSub(ev, r, c) ==
    /\ ev.r_s <= r /\ r < ev.r_s + ev.r_num
    /\ ev.c_s <= c /\ c < ev.c_s + ev.c_num

InRect(a, r, c) ==
    /\ a.row_start <= r /\ r - a.row_start < a.row_num
    /\ a.col_start <= c /\ c - a.col_start < a.col_num

\* The rectangle of a is not empty and lies in the matrix.
ValidRect(g, a) ==
    /\ a.row_start >= 0 /\ a.col_start >= 0
    /\ a.row_num >= 1 /\ a.col_num >= 1
    /\ a.row_num <= g.nrows - a.row_start
    /\ a.col_num <= g.ncols - a.col_start

\* The element of the caller's buffer that belongs to cell (r, c).
SrcAt(a, r, c) ==
    BufVal(a.src_buf.buf, (r - a.row_start) * a.src_buf_ld + (c - a.col_start))

Rows == 0..(gtm.nrows - 1)
Cols == 0..(gtm.ncols - 1)

\* C1: a call on a valid rectangle succeeds, and the pieces it dispatches
\* cover every cell of the rectangle exactly once; every piece is non-empty,
\* lies inside the rectangle and inside the tile of its destination rank.
C1_DispatchPartitionsRectangle ==
    (call.fn \in UpdateFns /\ call.h = "gtm" /\ ValidRect(gtm, call)) =>
        /\ call.ret = GTM_SUCCESS
        /\ \A k \in DOMAIN Subs :
              LET ev == Subs[k]
                  br == ev.d \div gtm.c_blocks
                  bc == ev.d % gtm.c_blocks
              IN  /\ ev.d \in Ranks(gtm)
                  /\ ev.r_num > 0 /\ ev.c_num > 0
                  /\ gtm.r_displs[br] <= ev.r_s /\ ev.r_s + ev.r_num <= gtm.r_displs[br + 1]
                  /\ gtm.c_displs[bc] <= ev.c_s /\ ev.c_s + ev.c_num <= gtm.c_displs[bc + 1]
                  /\ InRect(call, ev.r_s, ev.c_s)
                  /\ InRect(call, ev.r_s + ev.r_num - 1, ev.c_s + ev.c_num - 1)
        /\ \A r \in Rows, c \in Cols :
              InRect(call, r, c) =>
                  Cardinality({ k \in DOMAIN Subs : InSub(Subs[k], r, c) }) = 1

\* A call that spans four tiles of unequal height.
C1_Witness ==
    /\ call.fn \in UpdateFns /\ call.ret = GTM_SUCCESS
    /\ Len(Subs) = 4
    /\ \E i, j \in DOMAIN Subs : Subs[i].r_num # Subs[j].r_num

\* C2: a successful blocking put leaves in every cell of its rectangle the
\* element of the caller's buffer that belongs to the cell, and leaves every
\* other cell as it was.
C2_PutWritesRectangle ==
    [][ (ncalls' = ncalls + 1 /\ call'.fn = "GTM_putBlock" /\ call'.ret = GTM_SUCCESS) =>
            \A r \in Rows, c \in Cols :
                Cell(gtm, win', r, c) =
                    IF InRect(call', r, c) THEN SrcAt(call', r, c) ELSE Cell(gtm, win, r, c)
      ]_vars

\* The 4 x 4 matrix on the 2 x 2 grid of 2 x 2 tiles, put as a whole: one
\* 2 x 2 quadrant to each of the four ranks.
C2_Witness ==
    /\ gtm = Grid44
    /\ call.fn = "GTM_putBlock" /\ call.ret = GTM_SUCCESS
    /\ call.row_start = 0 /\ call.row_num = 4 /\ call.col_start = 0 /\ call.col_num = 4
    /\ Len(Subs) = 4
    /\ \A d \in 0..3 : \E k \in DOMAIN Subs :
          Subs[k].d = d /\ Subs[k].r_num = 2 /\ Subs[k].c_num = 2
    /\ \A r \in Rows, c \in Cols : Cell(gtm, win, r, c) = SrcAt(call, r, c)

\* C3: after two successive blocking accumulates of the same buffer on the
\* same rectangle every cell of the rectangle has grown by twice its element
\* of the buffer, and every other cell is as it was before the first.
C3_TwoAccumulatesAddTwice ==
    ( /\ Len(hist) = 2
      /\ hist[1].call = hist[2].call
      /\ hist[2].call.fn = "GTM_accBlock"
      /\ hist[2].call.ret = GTM_SUCCESS ) =>
        \A r \in Rows, c \in Cols :
            Cell(gtm, win, r, c) =
                Cell(gtm, hist[1].win, r, c)
                    + (IF InRect(call, r, c) THEN 2 * SrcAt(call, r, c) ELSE 0)

\* Two accumulates of the whole matrix, which spans all the tiles.
C3_Witness ==
    /\ Len(hist) = 2
    /\ hist[1].call = hist[2].call
    /\ call.fn = "GTM_accBlock" /\ call.ret = GTM_SUCCESS
    /\ call.row_num = gtm.nrows /\ call.col_num = gtm.ncols
    /\ Cell(gtm, win, 0, 0) = Cell(gtm, hist[1].win, 0, 0) + 2 * SrcAt(call, 0, 0)

AddFns == { "GTM_addPutBlockRequest", "GTM_addAccBlockRequest" }

\* C4: an add-request call made while no batch update is active fails and
\* puts nothing on any queue.
C4_AddFailsOutsideBatch ==
    (call.fn \in AddFns /\ in_batch_put = 0 /\ in_batch_acc = 0) =>
        /\ call.ret # GTM_SUCCESS
        /\ \A k \in DOMAIN trace : trace[k].e # "push"

BatchFlags == << in_batch_get, in_batch_put, in_batch_acc >>

\* The already-batched codes that match the flags now set.
AlreadyCodes ==
    (IF in_batch_get # 0 THEN { GTM_IN_BATCHED_GET } ELSE {})
        \cup (IF in_batch_put # 0 THEN { GTM_IN_BATCHED_PUT } ELSE {})
        \cup (IF in_batch_acc # 0 THEN { GTM_IN_BATCHED_ACC } ELSE {})

\* C5: GTM_startBatchUpdate with some batch active fails with the code of a
\* flag that is set and changes no flag and no queue; with none active it
\* succeeds, leaves every queue empty and sets in_batch_put and in_batch_acc.
C5_StartBatchUpdate ==
    [][ (ncalls' = ncalls + 1 /\ call'.fn = "GTM_startBatchUpdate") =>
            IF AlreadyCodes # {}
            THEN /\ call'.ret \in AlreadyCodes
                 /\ BatchFlags' = BatchFlags
                 /\ req_vec' = req_vec
            ELSE /\ call'.ret = GTM_SUCCESS
                 /\ \A d \in Ranks(gtm) : req_vec'[d] = << >>
                 /\ in_batch_put' = 1 /\ in_batch_acc' = 1 /\ in_batch_get' = 0
      ]_vars

\* A start refused inside a batch that has requests queued.
C5_Witness ==
    /\ call.fn = "GTM_startBatchUpdate" /\ call.ret = GTM_IN_BATCHED_PUT
    /\ in_batch_put = 1 /\ in_batch_acc = 1
    /\ \E d \in Ranks(gtm) : req_vec[d] # << >>

\* The no-batched codes that match the flags now clear.
NoBatchCodes ==
    (IF in_batch_put = 0 THEN { GTM_NO_BATCHED_PUT } ELSE {})
        \cup (IF in_batch_acc = 0 THEN { GTM_NO_BATCHED_ACC } ELSE {})

\* C6: GTM_execBatchUpdate and GTM_stopBatchUpdate with no batch update active
\* fail with the code of a flag that is clear, make no MPI call, and change
\* no flag, no queue, no epoch and no window.
C6_ExecStopOutsideBatch ==
    [][ ( /\ ncalls' = ncalls + 1
          /\ call'.fn \in { "GTM_execBatchUpdate", "GTM_stopBatchUpdate" }
          /\ NoBatchCodes # {} ) =>
            /\ call'.ret \in NoBatchCodes
            /\ trace' = << >>
            /\ BatchFlags' = BatchFlags
            /\ req_vec' = req_vec
            /\ held' = held /\ pend' = pend /\ win' = win
      ]_vars

\* An execute refused while requests sit in a queue.
C6_Witness ==
    /\ call.fn = "GTM_execBatchUpdate" /\ call.ret = GTM_NO_BATCHED_PUT
    /\ \E d \in Ranks(gtm) : req_vec[d] # << >>

\* The element of a queued request that belongs to cell (r, c).
ReqVal(q, r, c) ==
    ReadElem(q.src_buf, (r - q.row_start) * q.src_buf_ld + (c - q.col_start), gtm.unit_size)

RECURSIVE SumReq(_, _, _, _)
SumReq(Q, S, r, c) ==
    IF S = {} THEN 0
    ELSE LET i == CHOOSE i \in S : TRUE
         IN  (IF Q[i].op = MPI_SUM THEN ReqVal(Q[i], r, c) ELSE 0) + SumReq(Q, S \ { i }, r, c)

\* What cell (r, c) holds once the queue of its owner is applied in the order
\* queued: the last put that covers it (or what it held) plus every later sum.
AfterQueue(r, c) ==
    LET Q == req_vec[OwnerOf(gtm, r, c).rank]
        K == { i \in DOMAIN Q : InRect(Q[i], r, c) }
        P == { i \in K : Q[i].op = MPI_REPLACE }
        lastPut == IF P = {} THEN 0 ELSE SetMax(P)
    IN  (IF lastPut = 0 THEN Cell(gtm, win, r, c) ELSE ReqVal(Q[lastPut], r, c))
            + SumReq(Q, { i \in K : i > lastPut }, r, c)

\* C7: a successful GTM_execBatchUpdate applies the queue of each destination
\* in the order queued: every cell ends with the value of the last queued put
\* that covers it, plus the accumulates queued after that put.
C7_ReplayInEnqueueOrder ==
    [][ (ncalls' = ncalls + 1 /\ call'.fn = "GTM_execBatchUpdate"
            /\ call'.ret = GTM_SUCCESS) =>
            \A r \in Rows, c \in Cols : Cell(gtm, win', r, c) = AfterQueue(r, c)
      ]_vars

\* The whole matrix put from 1, 2, 3, ... and then cell (0, 0) put from 7:
\* after the execute cell (0, 0) holds 7 and cell (0, 1) holds 2.
C7_Witness ==
    /\ call.fn = "GTM_execBatchUpdate" /\ call.ret = GTM_SUCCESS
    /\ Cell(gtm, win, 0, 0) = 7
    /\ Cell(gtm, win, 0, 1) = 2

NBFns == { "GTM_putBlockNB", "GTM_accBlockNB" }

\* The transfers and the flushes of a call, in order.
AccFlush(tr) == SelectSeq(tr, LAMBDA ev : ev.e \in { "acc", "flush" })

RECURSIVE FlushCount(_, _, _, _)
\* The outstanding operations after the events tr[k], tr[k + 1], ... when cnt
\* were outstanding before them; -1 when a flush is missing where the count
\* reaches max, comes where it does not, or leaves an epoch or a counter.
FlushCount(tr, k, cnt, max) ==
    IF k > Len(tr) THEN cnt
    ELSE IF tr[k].e = "acc"
         THEN IF cnt + 1 >= max
              THEN IF k + 1 <= Len(tr) /\ tr[k + 1].e = "flush"
                      /\ tr[k + 1].d = 0 /\ tr[k + 1].r_s = 0
                   THEN FlushCount(tr, k + 2, 0, max)
                   ELSE -1
              ELSE FlushCount(tr, k + 1, cnt + 1, max)
         ELSE -1

\* C8: in a non-blocking call a flush follows exactly the operations that
\* bring nb_op_cnt to max_nb_acc, after it no epoch is held and all counters
\* are zero, and every call returns with nb_op_cnt below max_nb_acc.
C8_ThresholdFlush ==
    [][ (ncalls' = ncalls + 1) =>
            /\ nb_op_cnt' < gtm.max_nb_acc
            /\ call'.fn \in NBFns =>
                  FlushCount(AccFlush(trace'), 1, nb_op_cnt, gtm.max_nb_acc) = nb_op_cnt'
      ]_vars

\* A call that flushes halfway and goes on: one operation is outstanding
\* and one epoch is held when it returns.
C8_Witness ==
    /\ call.fn \in NBFns /\ call.ret = GTM_SUCCESS
    /\ \E k \in DOMAIN trace : trace[k].e = "flush"
    /\ nb_op_cnt = 1
    /\ Cardinality(held) = 1

\* C9: a batched get and a batched update are never active together, and
\* in_batch_put equals in_batch_acc.
C9_OneBatchKind ==
    /\ ~(in_batch_get # 0 /\ (in_batch_put # 0 \/ in_batch_acc # 0))
    /\ in_batch_put = in_batch_acc

\* A batch update refused while a batched get is active.
C9_Witness ==
    /\ in_batch_get = 1
    /\ call.fn = "GTM_startBatchUpdate" /\ call.ret = GTM_IN_BATCHED_GET

\* The rectangles the check of the arguments is to refuse.
BadRect(g, a) ==
    \/ a.row_start < 0 \/ a.col_start < 0
    \/ a.row_num > g.nrows - a.row_start
    \/ a.col_num > g.ncols - a.col_start
    \/ a.row_num = 0 \/ a.col_num = 0

Untouched ==
    /\ trace = << >>
    /\ held = {}
    /\ nb_op_cnt = 0
    /\ \A d \in Ranks(gtm) :
          nb_op_proc_cnt[d] = 0 /\ req_vec[d] = << >> /\ pend[d] = << >>

\* C10: the first update call returns GTM_NULL_PTR without a handle and
\* GTM_INVALID_BLOCK for a rectangle with a negative origin, past nrows or
\* ncols, or with zero rows or columns; and it acquires, transfers, queues
\* and counts nothing.
C10_BadArgumentsRefused ==
    (call.fn \in UpdateFns /\ ncalls = 1) =>
        /\ call.h = "NULL" => (call.ret = GTM_NULL_PTR /\ Untouched)
        /\ (call.h = "gtm" /\ BadRect(gtm, call)) =>
              (call.ret = GTM_INVALID_BLOCK /\ Untouched)

\* C11: with a handle, the first update call returns a result code whatever
\* its four integers are: the process does not die in the call.
C11_EveryCallReturnsACode ==
    (call.fn \in UpdateFns /\ call.h = "gtm" /\ ncalls = 1) =>
        (fault = "none" /\ call.ret # NO_RETURN)

\* C12: every offset a transfer to rank d starts at lies in
\* [0, ld_local * (rows of the tile of d)).
C12_OffsetInsideWindow ==
    \A k \in DOMAIN trace :
        trace[k].e = "pos" =>
            (0 <= trace[k].r_s /\ trace[k].r_s < gtm.ld_local * TileRows(gtm, trace[k].d))

\* A transfer to the last element of a window of several rows, on a rank
\* that is not the first of its column of the grid.
C12_Witness ==
    /\ call.ret = GTM_SUCCESS
    /\ \E k \in DOMAIN trace :
          /\ trace[k].e = "pos"
          /\ trace[k].d >= gtm.c_blocks
          /\ TileRows(gtm, trace[k].d) >= 2
          /\ trace[k].r_s = gtm.ld_local * TileRows(gtm, trace[k].d) - 1

BatchActive == in_batch_put = 1 /\ in_batch_acc = 1

ExecStep == ncalls' = ncalls + 1 /\ call'.fn = "GTM_execBatchUpdate"

\* C13: GTM_execBatchUpdate in an active batch returns with no epoch held
\* and no transfer outstanding, with every queue empty and with the batch
\* still active.
C13_ExecLeavesNothingBehind ==
    [][ (ExecStep /\ BatchActive) =>
            /\ fault' = "none"
            /\ held' = {}
            /\ \A d \in Ranks(gtm) : req_vec'[d] = << >> /\ pend'[d] = << >>
            /\ BatchFlags' = BatchFlags
      ]_vars

\* An execute that replayed queued requests to at least two ranks.
C13_Witness ==
    /\ call.fn = "GTM_execBatchUpdate" /\ call.ret = GTM_SUCCESS
    /\ BatchActive
    /\ \E i, j \in DOMAIN trace :
          trace[i].e = "unlock" /\ trace[j].e = "unlock" /\ trace[i].d # trace[j].d
    /\ held = {}
    /\ \A d \in Ranks(gtm) : req_vec[d] = << >>

\* The ranks GTM_execBatchUpdate visits, and those it locks, in order.
Visited == SelectSeq(trace, LAMBDA ev : ev.e = "visit")
Locked == SelectSeq(trace, LAMBDA ev : ev.e = "lock")

\* C14: a successful GTM_execBatchUpdate visits my_rank, my_rank + 1, ...
\* modulo comm_size, every rank once, and locks, in this order, exactly the
\* ranks whose queue is not empty.
C14_RoundRobinFromOwnRank ==
    [][ (ExecStep /\ call'.ret = GTM_SUCCESS) =>
            LET V == SelectSeq(trace', LAMBDA ev : ev.e = "visit")
                L == SelectSeq(trace', LAMBDA ev : ev.e = "lock")
                W == SelectSeq(V, LAMBDA ev : req_vec[ev.d] # << >>)
            IN  /\ Len(V) = gtm.comm_size
                /\ \A k \in DOMAIN V : V[k].d = (gtm.my_rank + k - 1) % gtm.comm_size
                /\ Len(L) = Len(W)
                /\ \A k \in DOMAIN L : L[k].d = W[k].d
      ]_vars

\* Rank 1 executes requests queued for every rank: it locks 1, 2, 3, 0.
C14_Witness ==
    /\ call.fn = "GTM_execBatchUpdate" /\ call.ret = GTM_SUCCESS
    /\ gtm.my_rank = 1
    /\ Len(Visited) = 4
    /\ Len(Locked) = 4
    /\ Locked[1].d = 1 /\ Locked[4].d = 0

\* C15: GTM_stopBatchUpdate in an active batch succeeds, clears both flags,
\* makes no MPI call and leaves windows and queues as they are; and while no
\* batch is active no call changes a window, and the call that starts the
\* next batch leaves every queue empty.
C15_StopDiscardsQueuedRequests ==
    [][ (ncalls' = ncalls + 1) =>
            /\ (call'.fn = "GTM_stopBatchUpdate" /\ BatchActive) =>
                  /\ call'.ret = GTM_SUCCESS
                  /\ in_batch_put' = 0 /\ in_batch_acc' = 0
                  /\ trace' = << >>
                  /\ win' = win /\ pend' = pend /\ req_vec' = req_vec
            /\ ~BatchActive =>
                  /\ win' = win /\ pend' = pend
                  /\ BatchActive' => \A d \in Ranks(gtm) : req_vec'[d] = << >>
      ]_vars

\* A batch stopped with requests queued, and then an execute: it is refused,
\* the requests are still queued and the matrix is as it was created.
C15_Witness ==
    /\ Len(hist) = 2
    /\ hist[1].call.fn = "GTM_stopBatchUpdate" /\ hist[1].call.ret = GTM_SUCCESS
    /\ call.fn = "GTM_execBatchUpdate" /\ call.ret = GTM_NO_BATCHED_PUT
    /\ \E d \in Ranks(gtm) : req_vec[d] # << >>
    /\ win = WinInit(gtm)

RECURSIVE SumCnt(_, _)
SumCnt(cnt, S) ==
    IF S = {} THEN 0
    ELSE LET d == CHOOSE d \in S : TRUE IN cnt[d] + SumCnt(cnt, S \ { d })

\* The MPI calls of the last call that name rank d, in order.
EventsOf(d) == SelectSeq(trace, LAMBDA ev : ev.d = d /\ ev.e \in { "lock", "acc", "unlock" })

\* C16: between non-blocking calls and flushes the epoch of d is held exactly
\* when nb_op_proc_cnt[d] > 0, nb_op_cnt is the sum of the nb_op_proc_cnt,
\* and no lock or unlock went wrong.
C16_EpochHeldIffOutstanding ==
    /\ fault = "none"
    /\ held = { d \in Ranks(gtm) : nb_op_proc_cnt[d] > 0 }
    /\ nb_op_cnt = SumCnt(nb_op_proc_cnt, Ranks(gtm))
    /\ \A d \in Ranks(gtm) : nb_op_proc_cnt[d] >= 0

\* Two operations outstanding at one rank; the second call found the epoch
\* open and made a transfer without a lock.
C16_Witness ==
    /\ call.fn \in NBFns /\ call.ret = GTM_SUCCESS
    /\ \E d \in Ranks(gtm) :
          /\ nb_op_proc_cnt[d] = 2 /\ nb_op_cnt = 2 /\ held = { d }
          /\ Len(EventsOf(d)) = 1 /\ EventsOf(d)[1].e = "acc"

BlockingFns == { "GTM_putBlock", "GTM_accBlock" }

\* C17: a blocking call makes, for one destination after the other, a lock
\* of the configured type, one transfer and the unlock, all of that
\* destination; it returns with no epoch held and changes no counter, no
\* batch flag and no queue.
C17_BlockingBracket ==
    [][ (ncalls' = ncalls + 1 /\ call'.fn \in BlockingFns) =>
            LET E == SelectSeq(trace', LAMBDA ev : ev.e \in { "lock", "acc", "unlock" })
                n == Len(SelectSeq(trace', LAMBDA ev : ev.e = "sub"))
            IN  /\ call'.ret = GTM_SUCCESS
                /\ Len(E) = 3 * n
                /\ \A i \in 1..n :
                      LET d == SelectSeq(trace', LAMBDA ev : ev.e = "sub")[i].d
                      IN  /\ E[3 * i - 2].e = "lock" /\ E[3 * i - 2].d = d
                          /\ E[3 * i - 2].lock_type = gtm.acc_lock_type
                          /\ E[3 * i - 1].e = "acc" /\ E[3 * i - 1].d = d
                          /\ E[3 * i].e = "unlock" /\ E[3 * i].d = d
                /\ held' = held
                /\ nb_op_cnt' = nb_op_cnt /\ nb_op_proc_cnt' = nb_op_proc_cnt
                /\ BatchFlags' = BatchFlags
                /\ req_vec' = req_vec
      ]_vars

\* A blocking call to four destinations under the shared lock type.
C17_Witness ==
    /\ call.fn \in BlockingFns /\ call.ret = GTM_SUCCESS
    /\ gtm.acc_lock_type = MPI_LOCK_SHARED
    /\ Len(Locked) = 4
    /\ \A k \in DOMAIN Locked : Locked[k].lock_type = MPI_LOCK_SHARED
    /\ held = {}

Max2(a, b) == IF a > b THEN a ELSE b
Min2(a, b) == IF a < b THEN a ELSE b

\* The part of the rectangle of call a in the tile of rank d: first row, row
\* after the last, first column, column after the last.
PartOf(a, d) ==
    LET br == d \div gtm.c_blocks
        bc == d % gtm.c_blocks
    IN  [ rs |-> Max2(a.row_start, gtm.r_displs[br]),
          re |-> Min2(a.row_start + a.row_num, gtm.r_displs[br + 1]),
          cs |-> Max2(a.col_start, gtm.c_displs[bc]),
          ce |-> Min2(a.col_start + a.col_num, gtm.c_displs[bc + 1]) ]

\* The request an add call a is to queue for rank d.
RequestFor(a, d) ==
    LET x == PartOf(a, d)
    IN  [ op |-> IF a.fn = "GTM_addPutBlockRequest" THEN MPI_REPLACE ELSE MPI_SUM,
          row_start |-> x.rs, row_num |-> x.re - x.rs,
          col_start |-> x.cs, col_num |-> x.ce - x.cs,
          src_buf |-> [ buf  |-> a.src_buf.buf,
                        addr |-> a.src_buf.addr
                                   + ((x.rs - a.row_start) * a.src_buf_ld
                                        + (x.cs - a.col_start)) * gtm.unit_size ],
          src_buf_ld |-> a.src_buf_ld ]

\* C18: an add-request call makes no MPI call; it leaves windows, epochs and
\* counters as they are and appends, to the queue of every rank whose tile
\* the rectangle meets and to no other, one request: the operator, the part
\* of the rectangle in the tile, the place of that part in the caller's
\* buffer and the stride of the buffer.
C18_AddOnlyAppends ==
    [][ (ncalls' = ncalls + 1 /\ call'.fn \in AddFns) =>
            /\ call'.ret = GTM_SUCCESS
            /\ \A k \in DOMAIN trace' : trace'[k].e \in { "sub", "push" }
            /\ win' = win /\ pend' = pend /\ held' = held
            /\ nb_op_cnt' = nb_op_cnt /\ nb_op_proc_cnt' = nb_op_proc_cnt
            /\ \A d \in Ranks(gtm) :
                  LET x == PartOf(call', d)
                  IN  req_vec'[d] = IF x.rs < x.re /\ x.cs < x.ce
                                    THEN Append(req_vec[d], RequestFor(call', d))
                                    ELSE req_vec[d]
      ]_vars

\* A second add of the whole matrix: two requests in the queue of every
\* rank, the later at the end, its pointer moved into the buffer.
C18_Witness ==
    /\ call.fn \in AddFns /\ call.ret = GTM_SUCCESS
    /\ call.row_num = gtm.nrows /\ call.col_num = gtm.ncols
    /\ \A d \in Ranks(gtm) :
          Len(req_vec[d]) = 2 /\ req_vec[d][2] = RequestFor(call, d)
    /\ req_vec[3][2].src_buf.addr > 0
    /\ req_vec[0][1] # req_vec[0][2]

\* C19: whatever modes the calls of a process mix, the process locks no
\* window it holds locked, and it holds the epoch of every rank whose
\* non-blocking counter is above zero.
C19_NoLockOfHeldEpoch ==
    /\ fault # "lock_of_held_epoch"
    /\ fault # "unlock_of_free_epoch"
    /\ \A d \in Ranks(gtm) : nb_op_proc_cnt[d] > 0 => d \in held

\* C20: no two processes are each in MPI_Win_lock for an epoch the other
\* holds (such processes never return from their calls).
C20_NoWaitCycle ==
    ~ \E p, q \in Procs : WaitsFor(p, q) /\ WaitsFor(q, p)

====
